---- MODULE Spec2Model ----
(***************************************************************************)
(* Model of redisgl/WebSocketServer.py: the listener (serve_forever), one  *)
(* session thread per accepted connection (handle_client), the client      *)
(* registry (clients, guarded by lock), the broadcaster of the class       *)
(* docstring, and the frame codec (encode_bytes, encode_message,           *)
(* decode_message); and of robot_part_1.py: RobotController.run with       *)
(* update_control and is_done.                                             *)
(***************************************************************************)
EXTENDS Integers, Sequences, FiniteSets, TLC

(* ------------------------------ bounds -------------------------------- *)

\* Number of connections that reach the listener.
NumConns == 2

\* Number of client.recv(1024) calls that return or raise, over all receive
\* loops, before the peers stay silent (a read then blocks forever).
MaxReads == 2

Conns == 1..NumConns

(* --------------------------- byte arithmetic --------------------------- *)

RECURSIVE BitXor(_, _)
\* Python's ^ on two non-negative integers.
BitXor(a, b) ==
  IF a = 0 THEN b
  ELSE IF b = 0 THEN a
  ELSE (((a % 2) + (b % 2)) % 2) + (2 * BitXor(a \div 2, b \div 2))

\* Python's seq[lo:hi] with 0-based, clamped bounds (0 <= lo <= hi).
Slice(s, lo, hi) ==
  LET h == IF hi < Len(s) THEN hi ELSE Len(s)
  IN  IF lo >= h THEN << >> ELSE [i \in 1..(h - lo) |-> s[lo + i]]

(* ---------------------------- decode_message --------------------------- *)

\* The value None; distinct from every byte sequence.
None == << -1 >>

\* Stands for struct.error escaping decode_message.
StructError == << -2 >>

CLOSE_PAYLOAD == << 3, 233 >>

\* decode_message with the mask key taken one byte late.
decode_message_key_shifted(message) ==
  IF Len(message) = 0 THEN None
  ELSE IF Len(message) < 2 THEN StructError
  ELSE LET b2 == message[2]
           payload_length == b2 % 128
           idx_first_mask == IF payload_length = 126 THEN 4
                             ELSE IF payload_length = 127 THEN 10
                             ELSE 2
           idx_first_data == idx_first_mask + 4
           masks == Slice(message, idx_first_mask, idx_first_data)
           decoded_bytes ==
             [i \in 1..(IF Len(message) > idx_first_data
                        THEN Len(message) - idx_first_data ELSE 0) |->
                BitXor(message[idx_first_data + i], masks[(i % 4) + 1])]
       IN  IF decoded_bytes = CLOSE_PAYLOAD THEN None ELSE decoded_bytes

\* decode_message taking op_code 8, not the payload, as the end of the
\* conversation.
decode_message_close_by_opcode(message) ==
  IF Len(message) = 0 THEN None
  ELSE IF Len(message) < 2 THEN StructError
  ELSE LET b1 == message[1]
           b2 == message[2]
           op_code == b1 % 16
           payload_length == b2 % 128
           idx_first_mask == IF payload_length = 126 THEN 4
                             ELSE IF payload_length = 127 THEN 10
                             ELSE 2
           idx_first_data == idx_first_mask + 4
           masks == Slice(message, idx_first_mask, idx_first_data)
           decoded_bytes ==
             [i \in 1..(IF Len(message) > idx_first_data
                        THEN Len(message) - idx_first_data ELSE 0) |->
                BitXor(message[idx_first_data + i], masks[((i - 1) % 4) + 1])]
       IN  IF op_code = 8 THEN None ELSE decoded_bytes

decode_message(message) ==
  IF Len(message) = 0 THEN None
  ELSE IF Len(message) < 2 THEN StructError
  ELSE LET b2 == message[2]
           payload_length == b2 % 128
           idx_first_mask == IF payload_length = 126 THEN 4
                             ELSE IF payload_length = 127 THEN 10
                             ELSE 2
           idx_first_data == idx_first_mask + 4
           masks == Slice(message, idx_first_mask, idx_first_data)
           decoded_bytes ==
             [i \in 1..(IF Len(message) > idx_first_data
                        THEN Len(message) - idx_first_data ELSE 0) |->
                BitXor(message[idx_first_data + i], masks[((i - 1) % 4) + 1])]
       IN  IF decoded_bytes = CLOSE_PAYLOAD THEN None ELSE decoded_bytes

(* ----------------------------- frame encoder --------------------------- *)

\* An application message is one of
\*   [type |-> "bytes", data |-> a sequence of bytes]
\*   [type |-> "str",   data |-> a sequence of code points]
\*   [type |-> "dict",  update |-> a sequence of << key, val >>,
\*                      delete |-> a sequence of keys]
\* where keys and vals are "bytes" or "str" messages.
Bytes(b) == [type |-> "bytes", data |-> b]

Str(cps) == [type |-> "str", data |-> cps]

Delta(u, d) == [type |-> "dict", update |-> u, delete |-> d]

\* str.encode("utf-8") of one code point (no surrogates).
utf8_char(cp) ==
  IF cp < 128 THEN << cp >>
  ELSE IF cp < 2048 THEN << 192 + (cp \div 64), 128 + (cp % 64) >>
  ELSE IF cp < 65536
       THEN << 224 + (cp \div 4096), 128 + ((cp \div 64) % 64), 128 + (cp % 64) >>
  ELSE << 240 + (cp \div 262144), 128 + ((cp \div 4096) % 64),
          128 + ((cp \div 64) % 64), 128 + (cp % 64) >>

\* str.encode("utf-8"): the code points' encodings, concatenated (by halves).
RECURSIVE utf8(_)
utf8(cps) ==
  IF Len(cps) = 0 THEN << >>
  ELSE IF Len(cps) = 1 THEN utf8_char(cps[1])
  ELSE utf8(SubSeq(cps, 1, Len(cps) \div 2))
         \o utf8(SubSeq(cps, (Len(cps) \div 2) + 1, Len(cps)))

\* struct.pack of one unsigned big-endian integer of k bytes ("!B", "!H",
\* "!L", "!Q" for k = 1, 2, 4, 8).
RECURSIVE pack(_, _)
pack(n, k) == IF k = 0 THEN << >> ELSE pack(n \div 256, k - 1) \o << n % 256 >>

\* Lines 146-156: the length field of encode_bytes.
encode_length(length) ==
  IF length < 126 THEN pack(length, 1)
  ELSE IF length < (2 ^ 16) - 1 THEN pack(126, 1) \o pack(length, 2)
  ELSE pack(127, 1) \o pack(length, 8)

encode_bytes(message) ==
  LET b1 == IF message.type = "str" THEN 128 + 1 ELSE 128 + 2
      payload == IF message.type = "str" THEN utf8(message.data)
                 ELSE message.data
  IN  pack(b1, 1) \o encode_length(Len(payload)) \o payload

\* The update loop if a field carried its length prefix only.
RECURSIVE encode_update_bare(_)
encode_update_bare(pairs) ==
  IF Len(pairs) = 0 THEN << >>
  ELSE Tail(encode_bytes(Head(pairs)[1])) \o Tail(encode_bytes(Head(pairs)[2]))
         \o encode_update_bare(Tail(pairs))

\* Lines 176-179: the update pairs, each key and value through encode_bytes.
RECURSIVE encode_update(_)
encode_update(pairs) ==
  IF Len(pairs) = 0 THEN << >>
  ELSE encode_bytes(Head(pairs)[1]) \o encode_bytes(Head(pairs)[2])
         \o encode_update(Tail(pairs))

\* Lines 182-183: the delete keys, each through encode_bytes.
RECURSIVE encode_delete(_)
encode_delete(keys) ==
  IF Len(keys) = 0 THEN << >>
  ELSE encode_bytes(Head(keys)) \o encode_delete(Tail(keys))

encode_message(message) ==
  IF message.type = "bytes" THEN encode_bytes(message)
  ELSE IF message.type = "str" THEN encode_bytes(Bytes(utf8(message.data)))
  ELSE LET update_message ==
             pack(Len(message.update), 4) \o encode_update(message.update)
           delete_message ==
             pack(Len(message.delete), 4) \o encode_delete(message.delete)
       IN  encode_bytes(Bytes(update_message \o delete_message))

(* ------------------------------ handshake ------------------------------ *)

\* A request is the sequence of lines of the first read.  A line is the
\* sequence of its tokens, a token being a run of bytes; the bytes
\* Sec-WebSocket-Key at the start of a line, ":" and every ASCII whitespace
\* byte are always tokens of their own, so the line Sec-WebSocket-Key1: k1
\* is << "Sec-WebSocket-Key", "1", ":", " ", "k1" >>.
KEY_HEADER == << "Sec-WebSocket-Key" >>

STR_REJECT == "HTTP/1.1 400 Bad Request"

STR_HANDSHAKE == "HTTP/1.1 101 Web Socket Protocol Handshake"

\* bytes.startswith: the tokens of prefix are the first tokens of line.
startswith(line, prefix) ==
  Len(line) >= Len(prefix) /\ SubSeq(line, 1, Len(prefix)) = prefix

\* line.index(b":"): position (1-based) of the first ":" token, 0 if absent
\* (Python raises ValueError).
index(line) ==
  IF \E i \in 1..Len(line) : line[i] = ":"
  THEN CHOOSE i \in 1..Len(line) :
         line[i] = ":" /\ \A j \in 1..(i - 1) : line[j] # ":"
  ELSE 0

\* The bytes that bytes.strip() without an argument removes: space, tab,
\* line feed, carriage return, vertical tab (written "\\x0b") and form feed.
WHITESPACE == {" ", "\t", "\n", "\r", "\\x0b", "\f"}

RECURSIVE lstrip(_)
lstrip(s) == IF Len(s) > 0 /\ s[1] \in WHITESPACE THEN lstrip(Tail(s)) ELSE s

RECURSIVE rstrip(_)
rstrip(s) ==
  IF Len(s) > 0 /\ s[Len(s)] \in WHITESPACE
  THEN rstrip(SubSeq(s, 1, Len(s) - 1))
  ELSE s

strip(s) == rstrip(lstrip(s))

\* Lines 85-89: the outcome of the scan for the client key.
\*   [kind |-> "none"]            no line starts with the bytes of the key
\*                                header
\*   [kind |-> "raise"]           the first such line has no ":" (ValueError)
\*   [kind |-> "key", key |-> k]  the key found
RECURSIVE client_key(_)
client_key(lines) ==
  IF Len(lines) = 0 THEN [kind |-> "none", key |-> << >>]
  ELSE IF startswith(Head(lines), KEY_HEADER)
       THEN IF index(Head(lines)) = 0
            THEN [kind |-> "raise", key |-> << >>]
            ELSE [kind |-> "key",
                  key  |-> strip(SubSeq(Head(lines), index(Head(lines)) + 1,
                                        Len(Head(lines))))]
       ELSE client_key(Tail(lines))

\* b64encode(sha1(client_key + MAGIC).digest()): an injective function of
\* the key, kept symbolic.
accept_key(key) == << "b64sha1", key, "258EAFA5-E914-47DA-95CA-C5AB0DC85B11" >>

(* ------------------------------- inputs -------------------------------- *)

\* First reads a peer may send (client.recv(2048)): nothing; no line that
\* starts with the key header; a key line with spaces, a tab and a form
\* feed around the key; and a line that starts with the
\* bytes of the key header (Sec-WebSocket-KeyX k1) and has no ":".
Requests ==
  { << >>,
    << <<"GET", " ", "/">>, <<"Host", ":", " ", "h">> >>,
    << <<"GET", " ", "/">>, KEY_HEADER \o <<":", " ", "\t", "k1", "\f", " ">> >>,
    << KEY_HEADER \o <<"X", " ", "k1">> >> }

\* Frames a peer may send in the receive loop (client.recv(1024)):
\* an empty read, the masked close payload 03 E9, a masked binary frame
\* 01 02 03 and a frame truncated to one byte.
Frames ==
  { << >>,
    << 136, 130, 1, 2, 3, 4, 2, 235 >>,
    << 130, 131, 16, 32, 48, 64, 17, 34, 51 >>,
    << 129 >> }

(* ------------------------------- state --------------------------------- *)

VARIABLES
  hasConnectionCallback, \* client_connection_callback is not None
  hasMessageCallback,    \* client_message_callback is not None
  accepted,   \* serve_forever: the client accept() returned, 0 while in accept()
  pc,         \* position of each connection's handle_client thread
  request,    \* handle_client: the lines of client.recv(2048), empty before
  clients,    \* WebSocketServer.clients
  lock,       \* WebSocketServer.lock: 0 when free, else the holder
  message,    \* handle_client: the local `message` after decode_message
  sent,       \* what handle_client has sent on the connection's socket
  closed,     \* client.close() has been called
  connCalls,  \* invocations of client_connection_callback per connection
  msgCalls,   \* invocations of client_message_callback per connection
  reads,      \* client.recv(1024) calls made by the receive loop
  errs,       \* client.recv(1024) calls that raised
  err,        \* the exception that ended the thread, "" if none
  \* the broadcaster of the class docstring (lines 24-27)
  bpc,        \* its position
  bidx,       \* the list iterator's index into clients
  bstart,     \* clients as it was when the broadcaster took the lock
  bseen,      \* the clients the loop body has been run for
  \* one use of the frame codec: encode_message, a client's masking, decode_message
  cpc,        \* its position
  cmsg,       \* the application message given to encode_message
  cframe,     \* the bytes encode_message returned
  cmask,      \* the client's 4-byte mask key
  cwire,      \* the bytes given to decode_message
  cdecoded,   \* what decode_message returned
  \* RobotController (robot_part_1.py)
  rpc,        \* position of RobotController.run
  error,      \* self.error
  error_rounding, \* the side of its grid value on which the norm of
              \* self.error, computed in doubles, lies (-1, 0, 1)
  positions,  \* simulator.get_joint_positions()
  velocities, \* simulator.get_joint_velocities()
  accelerations, \* the last argument of simulator.set_joint_accelerations
  updates,    \* calls of update_control made by run
  steps       \* calls of simulator.step made by run

sessionVars ==
  << hasConnectionCallback, hasMessageCallback, accepted, pc, request,
     clients, lock, message, sent, closed, connCalls, msgCalls, reads, errs, err >>

broadcastVars == << bpc, bidx, bstart, bseen >>

codecVars == << cpc, cmsg, cframe, cmask, cwire, cdecoded >>

robotVars ==
  << rpc, error, error_rounding, positions, velocities, accelerations,
     updates, steps >>

vars == << sessionVars, broadcastVars, codecVars, robotVars >>

Unset == << -3 >>

\* No broadcaster is running.
BroadcastIdle ==
  /\ bpc = "idle"
  /\ bidx = 0
  /\ bstart = << >>
  /\ bseen = << >>

\* The codec is not in use.
CodecIdle ==
  /\ cpc = "idle"
  /\ cmsg = Unset
  /\ cframe = << >>
  /\ cmask = << >>
  /\ cwire = << >>
  /\ cdecoded = Unset

\* No controller is running.
RobotIdle ==
  /\ rpc = "idle"
  /\ error = None
  /\ error_rounding = 0
  /\ positions = << >>
  /\ velocities = << >>
  /\ accelerations = << >>
  /\ updates = 0
  /\ steps = 0

\* The server after WebSocketServer.__init__, with the callbacks given to
\* serve_forever.
ServerInit ==
  /\ hasConnectionCallback \in BOOLEAN
  /\ hasMessageCallback \in BOOLEAN
  /\ accepted = 0
  /\ pc = [c \in Conns |-> "connecting"]
  /\ request = [c \in Conns |-> << >>]
  /\ clients = << >>
  /\ lock = 0
  /\ message = [c \in Conns |-> Unset]
  /\ sent = [c \in Conns |-> << >>]
  /\ closed = [c \in Conns |-> FALSE]
  /\ connCalls = [c \in Conns |-> 0]
  /\ msgCalls = [c \in Conns |-> 0]
  /\ reads = [c \in Conns |-> 0]
  /\ errs = [c \in Conns |-> 0]
  /\ err = [c \in Conns |-> ""]

Init == ServerInit /\ BroadcastIdle /\ CodecIdle /\ RobotIdle

(* --------------------------- serve_forever ----------------------------- *)

\* client, _ = self.socket.accept()
Accept(c) ==
  /\ accepted = 0
  /\ pc[c] = "connecting"
  /\ accepted' = c
  /\ UNCHANGED << broadcastVars, codecVars, robotVars,
                  hasConnectionCallback, hasMessageCallback, request,
                  pc, clients, lock,
                  message, sent, closed, connCalls, msgCalls, reads, errs, err >>

\* t = threading.Thread(target=self.handle_client, ...); t.start()
Spawn ==
  /\ accepted # 0
  /\ pc' = [pc EXCEPT ![accepted] = "handshake"]
  /\ accepted' = 0
  /\ UNCHANGED << broadcastVars, codecVars, robotVars,
                  hasConnectionCallback, hasMessageCallback, request,
                  clients, lock,
                  message, sent, closed, connCalls, msgCalls, reads, errs, err >>

(* ---------------------------- handle_client ---------------------------- *)

\* An exception escapes handle_client: the thread ends where it is.
Raise(c, e) ==
  /\ pc' = [pc EXCEPT ![c] = "died"]
  /\ err' = [err EXCEPT ![c] = e]

\* HandshakeReject without the `return` of line 93: the reject response is
\* sent and the session carries on as if the handshake had succeeded.
HandshakeRejectNoReturn(c) ==
  /\ pc[c] = "handshake"
  /\ \E req \in Requests :
       /\ client_key(req).kind = "none"
       /\ request' = [request EXCEPT ![c] = req]
       /\ sent' = [sent EXCEPT ![c] = Append(@, << STR_REJECT >>)]
       /\ pc' = [pc EXCEPT ![c] =
                   IF hasConnectionCallback THEN "connect_callback"
                   ELSE "acquire_add"]
  /\ UNCHANGED << broadcastVars, codecVars, robotVars,
                  hasConnectionCallback, hasMessageCallback, accepted, clients,
                  lock, message, closed, connCalls, msgCalls, reads, errs, err >>

\* Lines 85-93 with no key found: reject and return.
HandshakeReject(c) ==
  /\ pc[c] = "handshake"
  /\ \E req \in Requests :
       /\ client_key(req).kind = "none"
       /\ request' = [request EXCEPT ![c] = req]
       /\ sent' = [sent EXCEPT ![c] = Append(@, << STR_REJECT >>)]
       /\ pc' = [pc EXCEPT ![c] = "returned"]
  /\ UNCHANGED << broadcastVars, codecVars, robotVars,
                  hasConnectionCallback, hasMessageCallback, accepted, clients,
                  lock, message, closed, connCalls, msgCalls, reads, errs, err >>

\* Line 88 raising ValueError: the key line has no ":".
HandshakeRaise(c) ==
  /\ pc[c] = "handshake"
  /\ \E req \in Requests :
       /\ client_key(req).kind = "raise"
       /\ request' = [request EXCEPT ![c] = req]
       /\ Raise(c, "ValueError@88")
  /\ UNCHANGED << broadcastVars, codecVars, robotVars,
                  hasConnectionCallback, hasMessageCallback, accepted, clients,
                  lock, message, sent, closed, connCalls, msgCalls, reads, errs >>

\* HandshakeAccept with the registry add moved before the connect callback.
HandshakeAcceptRegisters(c) ==
  /\ pc[c] = "handshake"
  /\ \E req \in Requests :
       /\ client_key(req).kind = "key"
       /\ request' = [request EXCEPT ![c] = req]
       /\ sent' = [sent EXCEPT ![c] =
                     Append(@, << STR_HANDSHAKE, accept_key(client_key(req).key) >>)]
       /\ clients' = Append(clients, c)
       /\ pc' = [pc EXCEPT ![c] =
                   IF hasConnectionCallback THEN "connect_callback"
                   ELSE "recv"]
  /\ UNCHANGED << broadcastVars, codecVars, robotVars,
                  hasConnectionCallback, hasMessageCallback, accepted,
                  lock, message, closed, connCalls, msgCalls, reads, errs, err >>

\* Lines 85-98 with a key found: send the 101 response.
HandshakeAccept(c) ==
  /\ pc[c] = "handshake"
  /\ \E req \in Requests :
       /\ client_key(req).kind = "key"
       /\ request' = [request EXCEPT ![c] = req]
       /\ sent' = [sent EXCEPT ![c] =
                     Append(@, << STR_HANDSHAKE, accept_key(client_key(req).key) >>)]
       /\ pc' = [pc EXCEPT ![c] =
                   IF hasConnectionCallback THEN "connect_callback"
                   ELSE "acquire_add"]
  /\ UNCHANGED << broadcastVars, codecVars, robotVars,
                  hasConnectionCallback, hasMessageCallback, accepted, clients,
                  lock, message, closed, connCalls, msgCalls, reads, errs, err >>

\* ConnectCallbackReturns with the callback invoked a second time.
ConnectCallbackTwice(c) ==
  /\ pc[c] = "connect_callback"
  /\ connCalls' = [connCalls EXCEPT ![c] = @ + 1]
  /\ pc' = [pc EXCEPT ![c] =
              IF connCalls[c] = 0 THEN "connect_callback" ELSE "acquire_add"]
  /\ UNCHANGED << broadcastVars, codecVars, robotVars,
                  hasConnectionCallback, hasMessageCallback, request, accepted,
                  clients, lock, message, sent, closed, msgCalls, reads, errs,
                  err >>

\* Lines 101-102: client_connection_callback(self, client) returns.
ConnectCallbackReturns(c) ==
  /\ pc[c] = "connect_callback"
  /\ connCalls' = [connCalls EXCEPT ![c] = @ + 1]
  /\ pc' = [pc EXCEPT ![c] = "acquire_add"]
  /\ UNCHANGED << broadcastVars, codecVars, robotVars,
                  hasConnectionCallback, hasMessageCallback, request,
                  accepted, clients,
                  lock, message, sent, closed, msgCalls, reads, errs, err >>

\* ConnectCallbackRaises for a callback invoked between lock.acquire() and
\* lock.release(): the exception ends the thread with the lock held.
ConnectCallbackRaisesLocked(c) ==
  /\ pc[c] = "connect_callback"
  /\ lock = 0
  /\ lock' = c
  /\ connCalls' = [connCalls EXCEPT ![c] = @ + 1]
  /\ Raise(c, "callback@102")
  /\ UNCHANGED << broadcastVars, codecVars, robotVars,
                  hasConnectionCallback, hasMessageCallback, request, accepted,
                  clients, message, sent, closed, msgCalls, reads, errs >>

\* Lines 101-102: client_connection_callback(self, client) raises.
ConnectCallbackRaises(c) ==
  /\ pc[c] = "connect_callback"
  /\ connCalls' = [connCalls EXCEPT ![c] = @ + 1]
  /\ Raise(c, "callback@102")
  /\ UNCHANGED << broadcastVars, codecVars, robotVars,
                  hasConnectionCallback, hasMessageCallback, request,
                  accepted, clients,
                  lock, message, sent, closed, msgCalls, reads, errs >>

\* AcquireAdd without waiting for the lock: the add is not serialized.
AcquireAddNoWait(c) ==
  /\ pc[c] = "acquire_add"
  /\ lock' = c
  /\ pc' = [pc EXCEPT ![c] = "append"]
  /\ UNCHANGED << broadcastVars, codecVars, robotVars,
                  hasConnectionCallback, hasMessageCallback, request, accepted,
                  clients, message, sent, closed, connCalls, msgCalls, reads,
                  errs, err >>

\* Line 105: self.lock.acquire()
AcquireAdd(c) ==
  /\ pc[c] = "acquire_add"
  /\ lock = 0
  /\ lock' = c
  /\ pc' = [pc EXCEPT ![c] = "append"]
  /\ UNCHANGED << broadcastVars, codecVars, robotVars,
                  hasConnectionCallback, hasMessageCallback, request,
                  accepted, clients,
                  message, sent, closed, connCalls, msgCalls, reads, errs, err >>

\* AppendClient with the connection appended a second time.
AppendClientTwice(c) ==
  /\ pc[c] = "append"
  /\ clients' = Append(Append(clients, c), c)
  /\ pc' = [pc EXCEPT ![c] = "release_add"]
  /\ UNCHANGED << broadcastVars, codecVars, robotVars,
                  hasConnectionCallback, hasMessageCallback, request,
                  accepted, lock,
                  message, sent, closed, connCalls, msgCalls, reads, errs, err >>

\* Line 106: self.clients.append(client)
AppendClient(c) ==
  /\ pc[c] = "append"
  /\ clients' = Append(clients, c)
  /\ pc' = [pc EXCEPT ![c] = "release_add"]
  /\ UNCHANGED << broadcastVars, codecVars, robotVars,
                  hasConnectionCallback, hasMessageCallback, request,
                  accepted, lock,
                  message, sent, closed, connCalls, msgCalls, reads, errs, err >>

\* ReleaseAdd without the call of lock.release().
ReleaseAddOmitted(c) ==
  /\ pc[c] = "release_add"
  /\ pc' = [pc EXCEPT ![c] = "recv"]
  /\ UNCHANGED << broadcastVars, codecVars, robotVars,
                  hasConnectionCallback, hasMessageCallback, request,
                  accepted, clients, lock,
                  message, sent, closed, connCalls, msgCalls, reads, errs, err >>

\* Line 107: self.lock.release()
ReleaseAdd(c) ==
  /\ pc[c] = "release_add"
  /\ lock' = 0
  /\ pc' = [pc EXCEPT ![c] = "recv"]
  /\ UNCHANGED << broadcastVars, codecVars, robotVars,
                  hasConnectionCallback, hasMessageCallback, request,
                  accepted, clients,
                  message, sent, closed, connCalls, msgCalls, reads, errs, err >>

RECURSIVE Sum(_, _)
Sum(f, n) == IF n = 0 THEN 0 ELSE f[n] + Sum(f, n - 1)

\* The client.recv(1024) calls made so far by all receive loops.
TotalReads == Sum(reads, NumConns)

\* Lines 118-119: after the callback, leave the loop iff message is None.
AfterCallback(m) == IF m = None THEN "acquire_remove" ELSE "recv"

\* RecvError with `break` in place of `continue`: a read error ends the loop.
RecvErrorBreaks(c) ==
  /\ pc[c] = "recv"
  /\ TotalReads < MaxReads
  /\ reads' = [reads EXCEPT ![c] = @ + 1]
  /\ errs' = [errs EXCEPT ![c] = @ + 1]
  /\ pc' = [pc EXCEPT ![c] = "acquire_remove"]
  /\ UNCHANGED << broadcastVars, codecVars, robotVars,
                  hasConnectionCallback, hasMessageCallback, request, accepted,
                  clients, lock, message, sent, closed, connCalls, msgCalls, err >>

\* Lines 111-114: client.recv(1024) raises; `continue`.
RecvError(c) ==
  /\ pc[c] = "recv"
  /\ TotalReads < MaxReads
  /\ reads' = [reads EXCEPT ![c] = @ + 1]
  /\ errs' = [errs EXCEPT ![c] = @ + 1]
  /\ UNCHANGED << broadcastVars, codecVars, robotVars,
                  hasConnectionCallback, hasMessageCallback, request,
                  accepted, pc,
                  clients, lock, message, sent, closed, connCalls, msgCalls, err >>

\* RecvFrame with the None test of line 118 moved before the callback: a
\* read that decodes to None leaves the loop without the callback.
RecvFrameBreakFirst(c) ==
  /\ pc[c] = "recv"
  /\ TotalReads < MaxReads
  /\ reads' = [reads EXCEPT ![c] = @ + 1]
  /\ \E data \in Frames :
       /\ decode_message(data) # StructError
       /\ message' = [message EXCEPT ![c] = decode_message(data)]
       /\ pc' = [pc EXCEPT ![c] =
                   IF decode_message(data) = None THEN "acquire_remove"
                   ELSE IF hasMessageCallback THEN "message_callback"
                   ELSE "recv"]
  /\ UNCHANGED << broadcastVars, codecVars, robotVars,
                  hasConnectionCallback, hasMessageCallback, request, accepted,
                  clients, lock, sent, closed, connCalls, msgCalls, errs, err >>

\* Lines 112 and 115-116: a read returns and is decoded.
RecvFrame(c) ==
  /\ pc[c] = "recv"
  /\ TotalReads < MaxReads
  /\ reads' = [reads EXCEPT ![c] = @ + 1]
  /\ \E data \in Frames :
       /\ decode_message(data) # StructError
       /\ message' = [message EXCEPT ![c] = decode_message(data)]
       /\ pc' = [pc EXCEPT ![c] =
                   IF hasMessageCallback THEN "message_callback"
                   ELSE AfterCallback(decode_message(data))]
  /\ UNCHANGED << broadcastVars, codecVars, robotVars,
                  hasConnectionCallback, hasMessageCallback, request,
                  accepted, clients,
                  lock, sent, closed, connCalls, msgCalls, errs, err >>

\* Lines 112 and 115: a read returns and decode_message raises struct.error.
RecvMalformed(c) ==
  /\ pc[c] = "recv"
  /\ TotalReads < MaxReads
  /\ reads' = [reads EXCEPT ![c] = @ + 1]
  /\ \E data \in Frames :
       /\ decode_message(data) = StructError
       /\ Raise(c, "struct.error@115")
  /\ UNCHANGED << broadcastVars, codecVars, robotVars,
                  hasConnectionCallback, hasMessageCallback, request,
                  accepted, clients,
                  lock, message, sent, closed, connCalls, msgCalls, errs >>

\* Lines 116-119: client_message_callback(self, client, message) returns.
MessageCallbackReturns(c) ==
  /\ pc[c] = "message_callback"
  /\ msgCalls' = [msgCalls EXCEPT ![c] = @ + 1]
  /\ pc' = [pc EXCEPT ![c] = AfterCallback(message[c])]
  /\ UNCHANGED << broadcastVars, codecVars, robotVars,
                  hasConnectionCallback, hasMessageCallback, request,
                  accepted, clients,
                  lock, message, sent, closed, connCalls, reads, errs, err >>

\* Lines 116-117: client_message_callback(self, client, message) raises.
MessageCallbackRaises(c) ==
  /\ pc[c] = "message_callback"
  /\ msgCalls' = [msgCalls EXCEPT ![c] = @ + 1]
  /\ Raise(c, "callback@117")
  /\ UNCHANGED << broadcastVars, codecVars, robotVars,
                  hasConnectionCallback, hasMessageCallback, request,
                  accepted, clients,
                  lock, message, sent, closed, connCalls, reads, errs >>

\* Line 122: self.lock.acquire()
AcquireRemove(c) ==
  /\ pc[c] = "acquire_remove"
  /\ lock = 0
  /\ lock' = c
  /\ pc' = [pc EXCEPT ![c] = "remove"]
  /\ UNCHANGED << broadcastVars, codecVars, robotVars,
                  hasConnectionCallback, hasMessageCallback, request,
                  accepted, clients,
                  message, sent, closed, connCalls, msgCalls, reads, errs, err >>

\* remove written as list.pop(): drops the last element, whatever it is.
pop(s, x) == IF Len(s) = 0 THEN s ELSE SubSeq(s, 1, Len(s) - 1)

\* list.remove(x): drop the first occurrence of x.
RECURSIVE remove(_, _)
remove(s, x) ==
  IF Len(s) = 0 THEN s
  ELSE IF Head(s) = x THEN Tail(s)
  ELSE << Head(s) >> \o remove(Tail(s), x)

Member(s, x) == \E i \in 1..Len(s) : s[i] = x

\* Line 123: self.clients.remove(client); ValueError if not a member.
RemoveClient(c) ==
  /\ pc[c] = "remove"
  /\ IF Member(clients, c)
     THEN /\ clients' = remove(clients, c)
          /\ pc' = [pc EXCEPT ![c] = "release_remove"]
          /\ UNCHANGED err
     ELSE /\ Raise(c, "ValueError@123")
          /\ UNCHANGED clients
  /\ UNCHANGED << broadcastVars, codecVars, robotVars,
                  hasConnectionCallback, hasMessageCallback, request,
                  accepted, lock,
                  message, sent, closed, connCalls, msgCalls, reads, errs >>

\* Line 124: self.lock.release()
ReleaseRemove(c) ==
  /\ pc[c] = "release_remove"
  /\ lock' = 0
  /\ pc' = [pc EXCEPT ![c] = "close"]
  /\ UNCHANGED << broadcastVars, codecVars, robotVars,
                  hasConnectionCallback, hasMessageCallback, request,
                  accepted, clients,
                  message, sent, closed, connCalls, msgCalls, reads, errs, err >>

\* Close without the call of client.close().
CloseOmitted(c) ==
  /\ pc[c] = "close"
  /\ pc' = [pc EXCEPT ![c] = "done"]
  /\ UNCHANGED << broadcastVars, codecVars, robotVars,
                  hasConnectionCallback, hasMessageCallback, request, accepted,
                  clients, lock, message, sent, closed, connCalls, msgCalls,
                  reads, errs, err >>

\* Line 125: client.close()
Close(c) ==
  /\ pc[c] = "close"
  /\ closed' = [closed EXCEPT ![c] = TRUE]
  /\ pc' = [pc EXCEPT ![c] = "done"]
  /\ UNCHANGED << broadcastVars, codecVars, robotVars,
                  hasConnectionCallback, hasMessageCallback, request,
                  accepted, clients,
                  lock, message, sent, connCalls, msgCalls, reads, errs, err >>

Session(c) ==
  \/ HandshakeReject(c)
  \/ HandshakeRaise(c)
  \/ HandshakeAccept(c)
  \/ ConnectCallbackReturns(c)
  \/ ConnectCallbackRaises(c)
  \/ AcquireAdd(c)
  \/ AppendClient(c)
  \/ ReleaseAdd(c)
  \/ RecvError(c)
  \/ RecvFrame(c)
  \/ RecvMalformed(c)
  \/ MessageCallbackReturns(c)
  \/ MessageCallbackRaises(c)
  \/ AcquireRemove(c)
  \/ RemoveClient(c)
  \/ ReleaseRemove(c)
  \/ Close(c)

Next ==
  \/ \E c \in Conns : Accept(c)
  \/ Spawn
  \/ \E c \in Conns : Session(c)

\* The steps a session thread takes on its own, once scheduled: everything
\* but the reads, which wait for the peer. A lock acquisition is enabled
\* while the lock is free.
Progress(c) ==
  \/ ConnectCallbackReturns(c)
  \/ ConnectCallbackRaises(c)
  \/ AcquireAdd(c)
  \/ AppendClient(c)
  \/ ReleaseAdd(c)
  \/ MessageCallbackReturns(c)
  \/ MessageCallbackRaises(c)
  \/ AcquireRemove(c)
  \/ RemoveClient(c)
  \/ ReleaseRemove(c)
  \/ Close(c)

Spec == Init /\ [][Next]_vars

\* Every session thread keeps being scheduled: a callback that was entered
\* comes back, and a thread that can take the lock or go on does so.
LiveSpec == Spec /\ \A c \in Conns : WF_vars(Progress(c))

(* ----------------------------- vocabulary ------------------------------ *)

\* The 101 response has been sent on c: its handshake succeeded.
Sent101(c) == \E i \in 1..Len(sent[c]) : sent[c][i][1] = STR_HANDSHAKE

\* The reject response has been sent on c.
SentReject(c) == \E i \in 1..Len(sent[c]) : sent[c][i] = << STR_REJECT >>

\* The first read of c has been made and held no key line.
NoKeyRead(c) ==
  pc[c] \notin {"connecting", "handshake"} /\ client_key(request[c]).kind = "none"

\* The thread of c has ended: by return, after close, or by an exception.
Ended(c) == pc[c] \in {"returned", "done", "died"}

\* Number of occurrences of c in the registry.
Count(c) == Cardinality({i \in 1..Len(clients) : clients[i] = c})

\* Active: inside the receive loop (lines 110-119).
InLoop(c) == pc[c] \in {"recv", "message_callback"}

\* Closing or Closed: the loop was left by `break`.
LeftLoop(c) ==
  pc[c] \in {"acquire_remove", "remove", "release_remove", "close", "done"}

(* -------------------------------- C1 ----------------------------------- *)

\* C1: a connection is a member of clients if and only if its handshake has
\* succeeded and its session has not yet exited, by any path (the steps of
\* the add and of the remove themselves are left free).
C1_MemberIffSessionLive ==
  \A c \in Conns :
    /\ Member(clients, c) => Sent101(c) /\ ~Ended(c)
    /\ Sent101(c) /\ InLoop(c) => Member(clients, c)

(* -------------------------------- C2 ----------------------------------- *)

\* C2: when the first read holds no Sec-WebSocket-Key line, the session
\* sends exactly the reject response and ends: no 101 response, no registry
\* entry, no connect callback, no message callback, no read of the loop.
C2_RejectOnMissingKey ==
  \A c \in Conns :
    NoKeyRead(c) =>
      /\ pc[c] = "returned"
      /\ sent[c] = << << STR_REJECT >> >>
      /\ ~Sent101(c)
      /\ ~Member(clients, c)
      /\ lock # c
      /\ connCalls[c] = 0
      /\ msgCalls[c] = 0
      /\ reads[c] = 0

C2_Witness ==
  \E c \in Conns :
    /\ NoKeyRead(c)
    /\ SentReject(c)
    /\ \E d \in Conns : d # c /\ Member(clients, d)

(* -------------------------------- C3 ----------------------------------- *)

\* C3 as stated: the message callback is invoked only for reads whose
\* decode yields a payload, never for "no message".
C3_NoCallbackOnNone ==
  [][\A c \in Conns : msgCalls'[c] # msgCalls[c] => message[c] # None]_vars

\* A read of c returned and was decoded in this step.
Decoded(c) ==
  reads'[c] = reads[c] + 1 /\ errs'[c] = errs[c] /\ pc'[c] # "died"

\* C3 amended: every decoded read, "no message" included, is handed to the
\* message callback when one is supplied; when the callback returns (or
\* when none is supplied) the session moves to Closing iff the decode
\* yielded "no message" and stays Active otherwise.
C3_CallbackThenClose ==
  [][\A c \in Conns :
       /\ Decoded(c) =>
            pc'[c] = IF hasMessageCallback THEN "message_callback"
                     ELSE IF message'[c] = None THEN "acquire_remove"
                     ELSE "recv"
       /\ msgCalls'[c] # msgCalls[c] =>
            /\ pc[c] = "message_callback"
            /\ msgCalls'[c] = msgCalls[c] + 1
            /\ message'[c] = message[c]
            /\ pc'[c] \in {"died",
                           IF message[c] = None THEN "acquire_remove" ELSE "recv"}
       /\ pc[c] # "acquire_remove" /\ pc'[c] = "acquire_remove" =>
            message'[c] = None
     ]_vars

C3_Witness ==
  \E c \in Conns :
    /\ pc[c] = "acquire_remove"
    /\ message[c] = None
    /\ msgCalls[c] = 2
    /\ reads[c] = 2

(* -------------------------------- C4 ----------------------------------- *)

\* The session of c is past lines 101-102.
PastConnect(c) ==
  pc[c] \in {"acquire_add", "append", "release_add"} \/ InLoop(c) \/ LeftLoop(c)

\* C4: with a connect callback supplied, a connection whose handshake
\* succeeded gets the connect callback exactly once: it is the session's
\* next step after the 101 response, it precedes every read of the receive
\* loop and every message callback, and it is never invoked again; a
\* connection whose handshake did not succeed never gets it.
C4_ConnectCallbackOnce ==
  \A c \in Conns :
    /\ connCalls[c] <= 1
    /\ connCalls[c] = 1 => Sent101(c) /\ hasConnectionCallback
    /\ hasConnectionCallback /\ Sent101(c) =>
         \/ pc[c] = "connect_callback" /\ connCalls[c] = 0
         \/ pc[c] # "connect_callback" /\ connCalls[c] = 1
    /\ hasConnectionCallback /\ PastConnect(c) => connCalls[c] = 1
    /\ pc[c] = "connect_callback" => reads[c] = 0 /\ msgCalls[c] = 0
    /\ hasConnectionCallback /\ (reads[c] > 0 \/ msgCalls[c] > 0) =>
         connCalls[c] = 1

C4_Witness ==
  \E c \in Conns :
    /\ hasConnectionCallback
    /\ connCalls[c] = 1
    /\ msgCalls[c] = 2
    /\ pc[c] = "done"

(* -------------------------------- C5 ----------------------------------- *)

\* C5 as stated: when the connect callback runs, the connection is already
\* a member of clients.
C5_MemberWhenConnectCallbackRuns ==
  [][\A c \in Conns : connCalls'[c] # connCalls[c] => Member(clients, c)]_vars

\* C5 amended: the session invokes the connect callback first and registers
\* the connection afterwards: while the connect callback runs the connection
\* is not a member of clients, and it becomes one only after the callback
\* has returned, before the first read of the receive loop.
C5_ConnectCallbackBeforeAdd ==
  /\ [][\A c \in Conns :
          /\ connCalls'[c] # connCalls[c] =>
               ~Member(clients, c) /\ ~Member(clients', c)
          /\ ~Member(clients, c) /\ Member(clients', c) =>
               /\ pc[c] = "append"
               /\ hasConnectionCallback => connCalls[c] = 1
               /\ reads[c] = 0
       ]_vars
  /\ [](\A c \in Conns :
          /\ pc[c] = "connect_callback" => ~Member(clients, c)
          /\ InLoop(c) => Member(clients, c))

C5_Witness ==
  \E c \in Conns :
    /\ hasConnectionCallback
    /\ connCalls[c] = 1
    /\ Member(clients, c)
    /\ pc[c] = "recv"

(* -------------------------------- C6 ----------------------------------- *)

\* C6: once a read of an Active session has decoded to "no message", then,
\* unless the message callback raises, the session eventually has removed
\* its connection from the registry and closed the socket; and once it has,
\* no callback is invoked for that connection again.
C6_NoMessageLeadsToClosed ==
  /\ \A c \in Conns :
       ((pc[c] = "message_callback" /\ message[c] = None)
          \/ pc[c] = "acquire_remove")
         ~> ((pc[c] = "done" /\ closed[c] /\ ~Member(clients, c))
               \/ err[c] = "callback@117")
  /\ [][\A c \in Conns :
          pc[c] = "done" =>
            /\ pc'[c] = "done"
            /\ closed'[c]
            /\ ~Member(clients', c)
            /\ connCalls'[c] = connCalls[c]
            /\ msgCalls'[c] = msgCalls[c]
       ]_vars

C6_Witness ==
  \E c \in Conns :
    /\ pc[c] = "done"
    /\ message[c] = None
    /\ closed[c]
    /\ ~Member(clients, c)
    /\ msgCalls[c] = 1
    /\ \E d \in Conns : d # c /\ Member(clients, d)

(* -------------------------------- C7 ----------------------------------- *)

\* C7: whenever a session has ended, for any reason, its socket has been
\* closed.
C7_ClosedWhenSessionEnds ==
  \A c \in Conns : Ended(c) => closed[c]

(* -------------------------------- C8 ----------------------------------- *)

\* C8: a read of the receive loop that raises is retried: in that step the
\* session stays at the read, no callback is invoked, and the registry, the
\* lock, the socket and `message` are left as they were; the loop is left
\* only after a read that returned, so a session whose reads all raise
\* stays Active and registered.
C8_ReadErrorRetries ==
  /\ [][\A c \in Conns :
          errs'[c] # errs[c] =>
            /\ pc[c] = "recv" /\ pc'[c] = "recv"
            /\ errs'[c] = errs[c] + 1
            /\ reads'[c] = reads[c] + 1
            /\ UNCHANGED << clients, lock, closed, message, sent, connCalls,
                            msgCalls, err >>
       ]_vars
  /\ [](\A c \in Conns :
          /\ errs[c] <= reads[c]
          /\ LeftLoop(c) => errs[c] < reads[c] /\ message[c] = None
          /\ reads[c] > 0 /\ errs[c] = reads[c] =>
               /\ pc[c] = "recv"
               /\ Member(clients, c)
               /\ ~closed[c]
               /\ msgCalls[c] = 0)

C8_Witness ==
  \E c \in Conns :
    /\ errs[c] = 2
    /\ reads[c] = 2
    /\ pc[c] = "recv"
    /\ Member(clients, c)

(* -------------------------------- C9 ----------------------------------- *)

\* The session of c has failed: rejected, or ended by an exception.
Failed(c) == pc[c] \in {"returned", "died"}

\* This step is a failure of the session of c: a handshake rejection, an
\* exception escaping the thread, or a read error.
FailureStep(c) == (~Failed(c) /\ Failed(c)') \/ errs'[c] # errs[c]

\* C9: a failure of one session leaves every other connection's session
\* state and registry membership, the registry, the lock and the listener
\* as they were; a failed session never holds the lock, whose holder can
\* always go on to release it; and the listener can always accept a
\* waiting connection and start its session.
C9_FailuresAreLocal ==
  /\ [][\A c \in Conns :
          FailureStep(c) =>
            /\ \A d \in Conns \ {c} :
                 /\ pc'[d] = pc[d]
                 /\ Member(clients', d) <=> Member(clients, d)
                 /\ message'[d] = message[d]
                 /\ sent'[d] = sent[d]
                 /\ closed'[d] = closed[d]
                 /\ connCalls'[d] = connCalls[d]
                 /\ msgCalls'[d] = msgCalls[d]
                 /\ err'[d] = err[d]
            /\ UNCHANGED << clients, lock, accepted >>
       ]_vars
  /\ [](\A c \in Conns : Failed(c) => lock # c)
  /\ [](lock # 0 => ENABLED Progress(lock))
  /\ [](\A c \in Conns :
          /\ accepted = 0 /\ pc[c] = "connecting" => ENABLED Accept(c)
          /\ accepted = c => ENABLED Spawn)

C9_Witness ==
  \E c, d \in Conns :
    /\ c # d
    /\ pc[c] = "died"
    /\ Member(clients, c)
    /\ pc[d] = "done"
    /\ accepted = 0

(* -------------------------------- C10 ---------------------------------- *)

\* The add of c has taken effect and its remove has not.
Registered(c) ==
  pc[c] \in {"release_add", "recv", "message_callback", "acquire_remove",
             "remove"}

\* The remove of c has taken effect.
Removed(c) == pc[c] \in {"release_remove", "close", "done"}

\* C10: under every interleaving of the sessions' adds and removes, a
\* connection is in clients exactly once from its add to its remove and not
\* at all after its remove, and no remove fails; so after NumConns adds all
\* NumConns connections are members, and after their NumConns removes
\* clients is empty.
C10_AddsAndRemovesTakeEffect ==
  /\ \A c \in Conns :
       /\ Registered(c) => Count(c) = 1
       /\ Removed(c) => Count(c) = 0
       /\ err[c] # "ValueError@123"
  /\ (\A c \in Conns : Registered(c)) =>
       Len(clients) = NumConns /\ \A c \in Conns : Member(clients, c)
  /\ (\A c \in Conns : Removed(c)) => clients = << >>

C10_Witness ==
  /\ \A c \in Conns : pc[c] \in {"acquire_remove", "remove"}
  /\ \E c \in Conns : lock = c
  /\ Len(clients) = NumConns

(* ----------------------------- broadcaster ----------------------------- *)

\* The broadcaster of the class docstring, lines 24-27:
\*   ws_server.lock.acquire()
\*   for client in ws_server.clients:
\*       client.send(ws_server.encode_message("Hello World!"))
\*   ws_server.lock.release()

\* The broadcaster thread, as a holder of the lock.
Broadcaster == NumConns + 1

sessionVarsButLock ==
  << hasConnectionCallback, hasMessageCallback, accepted, pc, request,
     clients, message, sent, closed, connCalls, msgCalls, reads, errs, err >>

\* Line 24: ws_server.lock.acquire()
BroadcastAcquire ==
  /\ bpc = "idle"
  /\ lock = 0
  /\ lock' = Broadcaster
  /\ bpc' = "iterating"
  /\ bidx' = 0
  /\ bstart' = clients
  /\ bseen' = << >>
  /\ UNCHANGED << sessionVarsButLock, codecVars, robotVars >>

\* Lines 25-26: the list iterator yields clients[bidx] and the send returns.
BroadcastSend ==
  /\ bpc = "iterating"
  /\ bidx < Len(clients)
  /\ bseen' = Append(bseen, clients[bidx + 1])
  /\ bidx' = bidx + 1
  /\ UNCHANGED << sessionVars, bpc, bstart, codecVars, robotVars >>

\* Lines 25-26: the send raises; the thread ends without line 27.
BroadcastSendRaises ==
  /\ bpc = "iterating"
  /\ bidx < Len(clients)
  /\ bpc' = "died"
  /\ UNCHANGED << sessionVars, bidx, bstart, bseen, codecVars, robotVars >>

\* Line 25: the list iterator is exhausted.
BroadcastEndLoop ==
  /\ bpc = "iterating"
  /\ bidx >= Len(clients)
  /\ bpc' = "release"
  /\ UNCHANGED << sessionVars, bidx, bstart, bseen, codecVars, robotVars >>

\* Line 27: ws_server.lock.release()
BroadcastRelease ==
  /\ bpc = "release"
  /\ lock' = 0
  /\ bpc' = "idle"
  /\ bidx' = 0
  /\ bstart' = << >>
  /\ bseen' = << >>
  /\ UNCHANGED << sessionVarsButLock, codecVars, robotVars >>

BroadcastNext ==
  \/ Next
  \/ BroadcastAcquire
  \/ BroadcastSend
  \/ BroadcastSendRaises
  \/ BroadcastEndLoop
  \/ BroadcastRelease

\* The server with both callbacks supplied and a broadcaster thread.
BroadcastInit == Init /\ hasConnectionCallback /\ hasMessageCallback

BroadcastSpec == BroadcastInit /\ [][BroadcastNext]_vars

(* -------------------------------- C11 ---------------------------------- *)

\* The threads between a lock.acquire() and the matching lock.release(); a
\* thread that died there (list.remove raising at line 123, client.send
\* raising at line 26) never leaves.
InCriticalSection ==
  {c \in Conns :
     \/ pc[c] \in {"append", "release_add", "remove", "release_remove"}
     \/ pc[c] = "died" /\ err[c] = "ValueError@123"}
    \cup (IF bpc \in {"iterating", "release", "died"} THEN {Broadcaster} ELSE {})

\* C11: at most one thread is between an acquire and its release, and it
\* is the holder of the lock; clients changes only in a step of the session
\* that holds the lock, and only in that session's own entry; so from the
\* broadcaster's acquire to its release clients stays as it was at the
\* acquire, and the loop visits exactly those clients, in order.
C11_RegistryOnlyUnderLock ==
  /\ [](/\ Cardinality(InCriticalSection) <= 1
        /\ lock = 0 <=> InCriticalSection = {}
        /\ lock # 0 => InCriticalSection = {lock})
  /\ [][clients' # clients =>
          /\ lock \in Conns
          /\ lock' = lock
          /\ pc[lock] \in {"append", "remove"}
          /\ \A d \in Conns \ {lock} : Count(d)' = Count(d)
       ]_vars
  /\ [](bpc \in {"iterating", "release"} =>
          /\ clients = bstart
          /\ bidx <= Len(bstart)
          /\ bseen = SubSeq(bstart, 1, bidx)
          /\ bpc = "release" => bseen = bstart)

C11_Witness ==
  /\ bpc = "release"
  /\ Len(bseen) = 1
  /\ \E c \in Conns : pc[c] = "acquire_remove" /\ Member(bseen, c)
  /\ \E c \in Conns : pc[c] = "acquire_add"

(* ------------------------------- codec --------------------------------- *)

\* The number of bytes before the payload of an unmasked frame.
header_length(frame) ==
  IF frame[2] % 128 = 126 THEN 4 ELSE IF frame[2] % 128 = 127 THEN 10 ELSE 2

\* The payload of an unmasked frame (nothing for an empty read).
payload_of(frame) ==
  IF Len(frame) < 2 THEN << >>
  ELSE SubSeq(frame, header_length(frame) + 1, Len(frame))

\* The bytes a "bytes" or "str" message stands for.
bytes_of(m) == IF m.type = "str" THEN utf8(m.data) ELSE m.data

\* What a client does to a frame before it sends it, and what a caller
\* does to a server frame to hand it to decode_message: the mask bit is set,
\* the 4-byte key follows the length field, and payload byte i is XOR-ed
\* with key[i % 4].
client_mask(frame, key) ==
  LET h == header_length(frame)
  IN  << frame[1], frame[2] + 128 >> \o SubSeq(frame, 3, h) \o key
        \o [i \in 1..(Len(frame) - h) |->
              BitXor(frame[h + i], key[((i - 1) % 4) + 1])]

\* An unmasked frame a client builds itself: first byte b1 and either the
\* 7-bit length (marker 0) or marker 126 / 127 with a 2- / 8-byte length.
client_frame(b1, marker, payload) ==
  IF marker = 0 THEN << b1, Len(payload) >> \o payload
  ELSE IF marker = 126 THEN << b1, 126 >> \o pack(Len(payload), 2) \o payload
  ELSE << b1, 127 >> \o pack(Len(payload), 8) \o payload

(* codec inputs *)

\* Payload lengths on both sides of every tier boundary.
Lengths == {0, 1, 2, 125, 126, 65534, 65535, 65536}

BinaryPayload(n) == [i \in 1..n |-> ((i - 1) * 7) % 256]

AsciiText(n) == [i \in 1..n |-> 32 + (i % 95)]

\* "He" with an acute accent, the euro sign and an emoji: 1-, 2-, 3- and
\* 4-byte UTF-8 encodings.
MixedText == << 72, 233, 8364, 128512 >>

Deltas ==
  { Delta(<< << Str(<< 107, 49 >>), Bytes(<< 1, 2 >>) >>,
             << Str(<< 107, 50 >>), Str(<< 118, 8364 >>) >> >>,
          << Str(<< 107, 51 >>) >>),
    Delta(<< >>, << >>),
    Delta(<< << Bytes(BinaryPayload(126)), Str(AsciiText(200)) >> >>,
          << Bytes(BinaryPayload(125)), Str(<< >>) >>),
    Delta(<< << Str(<< 107 >>), Bytes(BinaryPayload(65535)) >> >>, << >>) }

Messages ==
  {Bytes(BinaryPayload(n)) : n \in Lengths}
    \cup {Str(AsciiText(n)) : n \in Lengths}
    \cup {Bytes(CLOSE_PAYLOAD), Str(MixedText), Str(<< 233 >>)}
    \cup Deltas

MaskKeys == { << 0, 0, 0, 0 >>, << 1, 2, 3, 4 >>, << 255, 128, 55, 170 >> }

\* First bytes a client may send: text, binary, close and ping, with fin.
FirstBytes == {129, 130, 136, 137}

Markers == {0, 126, 127}

ClientPayloads ==
  { << >>, << 3 >>, CLOSE_PAYLOAD, << 3, 233, 0 >>, << 233, 3 >>, << 104, 105 >> }

(* codec steps *)

\* The codec's three functions are static methods, called here directly
\* with whole frames: decode_message takes a byte string of any length.
\* (handle_client gives it what one client.recv(1024) returned, at most
\* 1024 bytes; its reads are the Frames of the sessions above.)

\* The application calls WebSocketServer.encode_message(m).
EncodeMessage(m) ==
  /\ cpc = "idle"
  /\ cmsg' = m
  /\ cframe' = encode_message(m)
  /\ cpc' = "encoded"
  /\ UNCHANGED << cmask, cwire, cdecoded, sessionVars, broadcastVars, robotVars >>

\* The application calls WebSocketServer.encode_bytes(m) itself.
EncodeBytes(m) ==
  /\ cpc = "idle"
  /\ m.type # "dict"
  /\ cmsg' = m
  /\ cframe' = encode_bytes(m)
  /\ cpc' = "encoded_bytes"
  /\ UNCHANGED << cmask, cwire, cdecoded, sessionVars, broadcastVars, robotVars >>

\* The frame encode_message produced is masked as a client would mask it,
\* to be the argument of decode_message.
ClientMasks(key) ==
  /\ cpc = "encoded"
  /\ cmask' = key
  /\ cwire' = client_mask(cframe, key)
  /\ cpc' = "masked"
  /\ UNCHANGED << cmsg, cframe, cdecoded, sessionVars, broadcastVars, robotVars >>

\* A masked frame as a client builds it, to be the argument of
\* decode_message.
ClientSends(b1, marker, key, payload) ==
  /\ cpc = "idle"
  /\ cframe' = client_frame(b1, marker, payload)
  /\ cmask' = key
  /\ cwire' = client_mask(client_frame(b1, marker, payload), key)
  /\ cpc' = "sent"
  /\ UNCHANGED << cmsg, cdecoded, sessionVars, broadcastVars, robotVars >>

\* The argument of decode_message is b"" (what recv returns when the peer
\* has closed).
RecvEmpty ==
  /\ cpc = "idle"
  /\ cpc' = "sent"
  /\ UNCHANGED << cmsg, cframe, cmask, cwire, cdecoded, sessionVars,
                  broadcastVars, robotVars >>

\* WebSocketServer.decode_message(cwire), lines 188-224.
DecodeMessage ==
  /\ cpc \in {"masked", "sent"}
  /\ cdecoded' = decode_message(cwire)
  /\ cpc' = IF cpc = "masked" THEN "decoded" ELSE "decoded_client"
  /\ UNCHANGED << cmsg, cframe, cmask, cwire, sessionVars, broadcastVars, robotVars >>

CodecNext ==
  \/ \E m \in Messages : EncodeMessage(m)
  \/ \E m \in Messages : EncodeBytes(m)
  \/ \E key \in MaskKeys : ClientMasks(key)
  \/ \E b1 \in FirstBytes, marker \in Markers, key \in MaskKeys,
        payload \in ClientPayloads : ClientSends(b1, marker, key, payload)
  \/ RecvEmpty
  \/ DecodeMessage

\* The codec alone: no connection is accepted.
CodecInit == Init /\ ~hasConnectionCallback /\ ~hasMessageCallback

CodecSpec == CodecInit /\ [][CodecNext]_vars

(* -------------------------------- C12 ---------------------------------- *)

\* C12: the frame encode_message produces starts with 0x81 (fin, opcode 1)
\* for a text message and with 0x82 (fin, opcode 2) for a bytes message and
\* for a delta message.
C12_OpcodeByKind ==
  cpc = "encoded" => cframe[1] = (IF cmsg.type = "str" THEN 129 ELSE 130)

(* -------------------------------- C13 ---------------------------------- *)

\* The payload lengths the round trip is stated for.
RoundTripLengths == {0, 1, 125, 126, 65535, 65536}

\* C13: a text or binary message of one of the stated lengths, encoded by
\* encode_message, masked by a client with any key and decoded by
\* decode_message, comes back as exactly its bytes.
C13_RoundTrip ==
  (/\ cpc = "decoded"
   /\ cmsg.type \in {"str", "bytes"}
   /\ Len(cmsg.data) \in RoundTripLengths)
    => /\ cdecoded = bytes_of(cmsg)
       /\ cmsg = Str(MixedText) =>
            cdecoded = << 72, 195, 169, 226, 130, 172, 240, 159, 152, 128 >>

\* A text of 126 characters went out as a frame of the 16-bit tier, was
\* masked with a non-zero key (so the wire bytes differ from the payload)
\* and came back as its 126 bytes.
C13_Witness ==
  /\ cpc = "decoded"
  /\ cmsg.type = "str"
  /\ Len(cmsg.data) = 126
  /\ cmask = << 255, 128, 55, 170 >>
  /\ SubSeq(cwire, 1, 8) = << 130, 254, 0, 126, 255, 128, 55, 170 >>
  /\ cwire[9] # cframe[5]
  /\ cdecoded = cmsg.data

(* -------------------------------- C14 ---------------------------------- *)

\* C14: decode_message returns None exactly when the read is empty or the
\* payload the client masked is 03 E9, whatever the first byte and the
\* length tier of the header; in every other case it returns the wire's
\* payload with byte i XOR-ed with key byte i mod 4, which is the payload
\* the client masked.
C14_NoneIffEmptyOrClose ==
  cpc \in {"decoded", "decoded_client"} =>
    /\ cdecoded = None <=>
         (cwire = << >> \/ payload_of(cframe) = CLOSE_PAYLOAD)
    /\ cdecoded # None =>
         /\ cdecoded = payload_of(cframe)
         /\ LET h == header_length(cframe) + 4
            IN  cdecoded = [i \in 1..(Len(cwire) - h) |->
                              BitXor(cwire[h + i], cmask[((i - 1) % 4) + 1])]

\* The close payload under a non-zero key in a binary frame whose header
\* uses the 16-bit tier was decoded to None.
C14_Witness ==
  /\ cpc = "decoded_client"
  /\ cframe = << 130, 126, 0, 2, 3, 233 >>
  /\ cmask = << 1, 2, 3, 4 >>
  /\ cwire = << 130, 254, 0, 2, 1, 2, 3, 4, 2, 235 >>
  /\ cdecoded = None

(* -------------------------------- C15 ---------------------------------- *)

\* What a parser returns when the bytes do not fit the layout it follows.
ParseFail == << -4 >>

\* struct.unpack of the k-byte big-endian unsigned integer after offset pos.
RECURSIVE unpack(_, _, _)
unpack(s, pos, k) ==
  IF k = 0 THEN 0 ELSE (unpack(s, pos, k - 1) * 256) + s[pos + k]

\* Reads a length prefix at offset pos: << length, offset after it >>.
read_length(s, pos) ==
  IF pos + 1 > Len(s) THEN ParseFail
  ELSE IF s[pos + 1] < 126 THEN << s[pos + 1], pos + 1 >>
  ELSE IF s[pos + 1] = 126
       THEN IF pos + 3 > Len(s) THEN ParseFail
            ELSE << unpack(s, pos + 1, 2), pos + 3 >>
  ELSE IF s[pos + 1] = 127
       THEN IF pos + 9 > Len(s) THEN ParseFail
            ELSE << unpack(s, pos + 1, 8), pos + 9 >>
  ELSE ParseFail

\* Reads one field at offset pos: << kind, bytes, offset after it >>.  With
\* framed, the field starts with the byte 0x81 (str) or 0x82 (bytes) and
\* kind is that byte; without, the field starts with its length prefix and
\* kind is 0.
read_field(s, pos, framed) ==
  LET at == IF framed THEN pos + 1 ELSE pos
      l == read_length(s, at)
  IN  IF framed /\ (pos + 1 > Len(s) \/ s[pos + 1] \notin {129, 130})
      THEN ParseFail
      ELSE IF l = ParseFail THEN ParseFail
      ELSE IF l[2] + l[1] > Len(s) THEN ParseFail
      ELSE << IF framed THEN s[pos + 1] ELSE 0,
              SubSeq(s, l[2] + 1, l[2] + l[1]),
              l[2] + l[1] >>

\* Reads n fields from offset pos: << << kind, bytes >>, ... >> and the
\* offset after them.
RECURSIVE read_fields(_, _, _, _)
read_fields(s, pos, n, framed) ==
  IF n = 0 THEN << << >>, pos >>
  ELSE LET f == read_field(s, pos, framed)
       IN  IF f = ParseFail THEN ParseFail
           ELSE LET rest == read_fields(s, f[3], n - 1, framed)
                IN  IF rest = ParseFail THEN ParseFail
                    ELSE << << << f[1], f[2] >> >> \o rest[1], rest[2] >>

\* Parses a delta payload: << update count, the 2 * count key and value
\* fields, delete count, the delete fields >>; all of s must be used.
parse_delta(s, framed) ==
  IF Len(s) < 4 THEN ParseFail
  ELSE LET nu == unpack(s, 0, 4)
           u == read_fields(s, 4, 2 * nu, framed)
       IN  IF u = ParseFail THEN ParseFail
           ELSE IF u[2] + 4 > Len(s) THEN ParseFail
           ELSE LET nd == unpack(s, u[2], 4)
                    d == read_fields(s, u[2] + 4, nd, framed)
                IN  IF d = ParseFail THEN ParseFail
                    ELSE IF d[2] # Len(s) THEN ParseFail
                    ELSE << nu, u[1], nd, d[1] >>

\* The field a parser is to recover for a key or a value.
field_of(x, framed) ==
  << IF ~framed THEN 0 ELSE IF x.type = "str" THEN 129 ELSE 130, bytes_of(x) >>

\* What a parser is to recover from the encoding of a delta message.
fields_of(m, framed) ==
  << Len(m.update),
     [i \in 1..(2 * Len(m.update)) |->
        field_of(m.update[(i + 1) \div 2][2 - (i % 2)], framed)],
     Len(m.delete),
     [i \in 1..Len(m.delete) |-> field_of(m.delete[i], framed)] >>

\* C15 as stated: the payload of the frame of a delta message is the update
\* count, each key and each value preceded only by its length prefix, the
\* delete count and each delete key preceded only by its length prefix; a
\* parser following that layout recovers the counts and the byte sequences.
C15_LengthPrefixedLayout ==
  (cpc = "encoded" /\ cmsg.type = "dict") =>
    parse_delta(payload_of(cframe), FALSE) = fields_of(cmsg, FALSE)

\* C15: the payload of the frame of a delta message is the 4-byte update
\* count, each key and each value as a whole encode_bytes frame (0x81 for
\* a str or 0x82 for bytes, the length field, the bytes), the 4-byte delete
\* count and each delete key as a whole encode_bytes frame; a parser
\* following that layout recovers the counts, the kinds and the byte
\* sequences in their original order and uses up the payload.
C15_FramedFieldLayout ==
  (cpc = "encoded" /\ cmsg.type = "dict") =>
    /\ cframe[1] = 130
    /\ parse_delta(payload_of(cframe), TRUE) = fields_of(cmsg, TRUE)

\* The delta with two update pairs and one delete key was encoded.
C15_Witness ==
  /\ cpc = "encoded"
  /\ cmsg.type = "dict"
  /\ Len(cmsg.update) = 2
  /\ Len(cmsg.delete) = 1
  /\ parse_delta(payload_of(cframe), TRUE) =
       << 2,
          << << 129, << 107, 49 >> >>, << 130, << 1, 2 >> >>,
             << 129, << 107, 50 >> >>, << 129, << 118, 226, 130, 172 >> >> >>,
          1,
          << << 129, << 107, 51 >> >> >> >>

(* -------------------------------- C16 ---------------------------------- *)

\* The length field of the three-tier rule with the 16-bit tier reaching
\* up to 65535 (lengths below 2^32).
three_tier_length(L) ==
  IF L < 126 THEN << L >>
  ELSE IF L <= 65535 THEN << 126, L \div 256, L % 256 >>
  ELSE << 127, 0, 0, 0, 0, (L \div (256 * 65536)) % 256, (L \div 65536) % 256,
          (L \div 256) % 256, L % 256 >>

\* C16: the frame encode_bytes returns for a payload of L bytes is its
\* first byte, the length field of the three-tier rule (L itself below 126,
\* marker 126 and 16 bits for 126 <= L <= 65535, marker 127 and 64 bits
\* from 65536 on) and then exactly the L payload bytes.
C16_ThreeTierLengthField ==
  (cpc \in {"encoded", "encoded_bytes"} /\ cmsg.type # "dict") =>
    cframe = << cframe[1] >> \o three_tier_length(Len(bytes_of(cmsg)))
               \o bytes_of(cmsg)

(* -------------------------------- C17 ---------------------------------- *)

\* How far a session is with the registry: 0 before its add, 1 between its
\* add and its remove, 2 after its remove.  A thread that died is where the
\* exception left it.
Phase(c) ==
  IF \/ pc[c] \in {"connecting", "handshake", "connect_callback",
                   "acquire_add", "append", "returned"}
     \/ pc[c] = "died" /\ err[c] \in {"ValueError@88", "callback@102"}
  THEN 0
  ELSE IF pc[c] \in {"release_remove", "close", "done"} THEN 2
  ELSE 1

\* C17: a session never goes back to an earlier phase, and the number of
\* entries of its connection changes only in its own step at line 106 (from
\* 0 to 1) or at line 123 (from 1 to 0), which takes it to the next phase:
\* at most one add, at most one remove, the remove after the add.  So
\* clients never holds a connection twice, a session that reaches line 123
\* finds its connection in clients, and list.remove never raises.
C17_OneAddThenOneRemove ==
  /\ [][\A c \in Conns :
          /\ Phase(c)' >= Phase(c)
          /\ Count(c)' # Count(c) =>
               /\ Phase(c)' = Phase(c) + 1
               /\ \/ pc[c] = "append" /\ Count(c) = 0 /\ Count(c)' = 1
                  \/ pc[c] = "remove" /\ Count(c) = 1 /\ Count(c)' = 0
       ]_vars
  /\ [](\A c \in Conns :
          /\ Count(c) <= 1
          /\ Phase(c) # 1 => Count(c) = 0
          /\ pc[c] = "remove" => Member(clients, c)
          /\ err[c] # "ValueError@123")

\* One session has added and removed its connection while another one has
\* added its own and is about to remove it.
C17_Witness ==
  \E c, d \in Conns :
    /\ c # d
    /\ pc[c] = "done"
    /\ pc[d] = "remove"
    /\ clients = << d >>

(* -------------------------------- C18 ---------------------------------- *)

\* C18: a session holds the lock only between line 105 and line 107 or
\* between line 122 and line 124, never when it has ended, waits in recv or
\* is inside a callback; while it holds the lock its next step is the one
\* list operation and the step after that the release; and, with the
\* session threads scheduled fairly, a session that waits at an acquire
\* eventually holds the lock.
C18_LockHeldOnlyAroundListOperation ==
  /\ [](\A c \in Conns :
          lock = c =>
            pc[c] \in {"append", "release_add", "remove", "release_remove"})
  /\ [][\A c \in Conns :
          (lock = c /\ pc'[c] # pc[c]) =>
            \/ pc[c] = "append" /\ pc'[c] = "release_add" /\ lock' = c
            \/ pc[c] = "release_add" /\ pc'[c] = "recv" /\ lock' = 0
            \/ pc[c] = "remove" /\ pc'[c] = "release_remove" /\ lock' = c
            \/ pc[c] = "release_remove" /\ pc'[c] = "close" /\ lock' = 0
       ]_vars
  /\ \A c \in Conns :
       (pc[c] \in {"acquire_add", "acquire_remove"}) ~> (lock = c)

\* One session waits at line 122 while another holds the lock at line 106.
C18_Witness ==
  \E c, d \in Conns :
    /\ c # d
    /\ pc[c] = "acquire_remove"
    /\ lock = d
    /\ pc[d] = "append"

(* --------------------------- RobotController --------------------------- *)

\* Number of iterations of the loop of run that are followed; a controller
\* that has not reached the goal by then is left running.
MaxIterations == 2

\* Joint angles and errors are integers in units of 1e-4 rad, velocities in
\* units of 1e-4 rad/s, and the arm has the first two of its seven joints.
\* The code holds doubles, which lie within rounding of these grid values;
\* error_rounding keeps the side on which the computed norm of self.error
\* lies, which decides the test of line 62 when the grid value is on the
\* tolerance.
\* Line 76: joint_position_goal = np.array([-0.3, -0.8, ...])
joint_position_goal == << -3000, -8000 >>

Joints == 1..Len(joint_position_goal)

\* Line 66: reasonable values of --kp and --kd.
KP == 49

KD == 14

\* Line 62: 1e-3, squared, in units of 1e-4: norm < 1e-3 if and only if the
\* sum of the squares is below 100.
TOLERANCE_SQUARED == 100

\* What the simulator may report for a joint: its distance from the goal
\* (so that the norm of the error falls on both sides of 1e-3, and exactly
\* on it for 6 and 8) and its velocity.
Offsets == {-8, 0, 6, 7, 8}

Velocities == {0, 1}

JointPositions ==
  {[j \in Joints |-> joint_position_goal[j] - off[j]] : off \in [Joints -> Offsets]}

JointVelocities == [Joints -> Velocities]

\* np.linalg.norm(v) ** 2
RECURSIVE sum_of_squares(_, _)
sum_of_squares(v, n) ==
  IF n = 0 THEN 0 ELSE (v[n] * v[n]) + sum_of_squares(v, n - 1)

\* What the subtraction of line 51 and the norm of line 61 may do to a
\* grid value: round below it, hit it, round above it.
Roundings == {-1, 0, 1}

\* Lines 61-62: np.linalg.norm(self.error) < 1e-3, for self.error a vector.
\* Off the tolerance the grid value decides (the nearest grid norms,
\* sqrt(99) and sqrt(101), are 5e-7 away from 1e-3); on it the rounding.
error_norm_below_tolerance ==
  \/ sum_of_squares(error, Len(error)) < TOLERANCE_SQUARED
  \/ /\ sum_of_squares(error, Len(error)) = TOLERANCE_SQUARED
     /\ error_rounding < 0

\* is_done with None taken for an error of zero.
is_done_without_none_test == error_norm_below_tolerance

\* Lines 57-62: RobotController.is_done
is_done ==
  IF error = None THEN FALSE
  ELSE error_norm_below_tolerance

\* Lines 73-85: the simulator and the controller are constructed and
\* controller.run() is called; self.error = None (line 28).
RobotStart ==
  /\ rpc = "idle"
  /\ positions' \in JointPositions
  /\ velocities' \in JointVelocities
  /\ error' = None
  /\ rpc' = "while"
  /\ UNCHANGED << error_rounding, accelerations, updates, steps, sessionVars,
                  broadcastVars, codecVars >>

\* Line 32: while not self.is_done()
WhileTest ==
  /\ rpc = "while"
  /\ IF is_done THEN rpc' = "assert"
     ELSE /\ updates < MaxIterations
          /\ rpc' = "update_control"
  /\ UNCHANGED << error, error_rounding, positions, velocities, accelerations,
                  updates, steps, sessionVars, broadcastVars, codecVars >>

\* Line 34 and lines 43-55: self.update_control()
update_control ==
  /\ rpc = "update_control"
  /\ LET err_ == [j \in Joints |-> joint_position_goal[j] - positions[j]]
         joint_acceleration ==
           [j \in Joints |-> (KP * err_[j]) - (KD * velocities[j])]
     IN  /\ accelerations' = joint_acceleration
         /\ error' = err_
         /\ error_rounding' \in Roundings
  /\ updates' = updates + 1
  /\ rpc' = "step"
  /\ UNCHANGED << positions, velocities, steps, sessionVars, broadcastVars,
                  codecVars >>

\* Line 35: self.simulator.step(); the simulator moves the arm as it likes.
SimulatorStep ==
  /\ rpc = "step"
  /\ positions' \in JointPositions
  /\ velocities' \in JointVelocities
  /\ steps' = steps + 1
  /\ rpc' = "while"
  /\ UNCHANGED << error, error_rounding, accelerations, updates, sessionVars,
                  broadcastVars, codecVars >>

\* Line 38: assert self.error is not None
AssertError ==
  /\ rpc = "assert"
  /\ rpc' = IF error # None THEN "asserted" ELSE "AssertionError"
  /\ UNCHANGED << error, error_rounding, positions, velocities, accelerations,
                  updates, steps, sessionVars, broadcastVars, codecVars >>

RobotNext ==
  \/ RobotStart
  \/ WhileTest
  \/ update_control
  \/ SimulatorStep
  \/ AssertError

\* The controller alone: no connection is accepted.
RobotInit == Init /\ ~hasConnectionCallback /\ ~hasMessageCallback

RobotSpec == RobotInit /\ [][RobotNext]_vars

(* -------------------------------- C19 ---------------------------------- *)

\* The loop of run has been left.
LoopExited == rpc \in {"assert", "asserted", "AssertionError"}

\* C19: as long as update_control has not run, self.error is None, is_done
\* is False and the loop has not been left; when the loop is left,
\* update_control and simulator.step have each run at least once, the step
\* after the update, self.error is the error update_control computed last
\* and its norm is below 1e-3 (its grid value is below the tolerance, or on
\* it with the doubles rounding below); and the assertion after the loop
\* never fails.
C19_LoopExitsAfterUpdateBelowTolerance ==
  /\ [](updates = 0 => error = None /\ ~is_done /\ ~LoopExited)
  /\ [](LoopExited =>
          /\ updates >= 1
          /\ steps = updates
          /\ error # None
          /\ sum_of_squares(error, Len(error)) <= TOLERANCE_SQUARED
          /\ sum_of_squares(error, Len(error)) = TOLERANCE_SQUARED =>
               error_rounding < 0)
  /\ [](rpc \in {"while", "update_control"} => steps = updates)
  /\ [](rpc = "step" => steps + 1 = updates)
  /\ [][(error' # error \/ error_rounding' # error_rounding) =>
          /\ rpc = "update_control"
          /\ updates' = updates + 1
          /\ error' = [j \in Joints |-> joint_position_goal[j] - positions[j]]
       ]_vars
  /\ [](rpc # "AssertionError")

\* The loop was left after two iterations, on an error on the tolerance
\* that rounded below it and was computed before the last step: the arm has
\* since moved away from the goal.
C19_Witness ==
  /\ rpc = "asserted"
  /\ updates = 2
  /\ steps = 2
  /\ error = << 6, 8 >>
  /\ error_rounding = -1
  /\ positions = << -3000 + 8, -8000 + 8 >>

====
